---------------------------- MODULE Spec2Model ----------------------------
(***************************************************************************)
(* A model of package dataloc (src/dataloc/dataloc.go): the lookup of the  *)
(* source line of a table-driven test case.                                *)
(*                                                                         *)
(* A Go string is a sequence of runes, a source token a sequence of source *)
(* characters, and a string returned to the caller a sequence of pieces    *)
(* (<<file, ":", line>> for fmt.Sprintf("%s:%d", file, line)).  A syntax   *)
(* tree is a sequence of statement nodes in the order ast.Inspect visits   *)
(* them; an identifier carries the *ast.Object the parser resolved it to,  *)
(* NilObj when it resolved it to none.                                     *)
(***************************************************************************)
EXTENDS Integers, Sequences, FiniteSets, TLC

(***************************************************************************)
(* Bounds of the model.                                                    *)
(***************************************************************************)
\* the longest table literal
MaxEntries == 2
\* the most names (and initializers) of one declaration or assignment
MaxNames == 2
\* the most helper frames between the test function and the entry point
MaxHelpers == 1
\* the most calls of the entry points in one run of the test binary
MaxCalls == 3
\* the line of the first statement of the source file
FirstLine == 1

(***************************************************************************)
(* Syntax trees (go/ast).                                                  *)
(***************************************************************************)
NilObj == "nil"
NilExpr == [kind |-> "nil"]
Other == [kind |-> "Other"]

Ident(name, obj) == [kind |-> "Ident", name |-> name, obj |-> obj]
SelectorExpr(x, sel) == [kind |-> "SelectorExpr", x |-> x, sel |-> sel]
BasicLit(tok, value) == [kind |-> "BasicLit", tok |-> tok, value |-> value]
KeyValueExpr(key, value, line) ==
    [kind |-> "KeyValueExpr", key |-> key, value |-> value, line |-> line, end |-> line]
CompositeLit(type, elts, line) ==
    [kind |-> "CompositeLit", type |-> type, elts |-> elts, line |-> line, end |-> line]
ArrayType(elt) == [kind |-> "ArrayType", elt |-> elt]
MapType == [kind |-> "MapType"]
\* fields: the field list, one sequence of names for each ast.Field
StructType(fields) == [kind |-> "StructType", fields |-> fields]

\* var names = values
VarDecl(names, values, line) ==
    [kind |-> "GenDecl", tok |-> "VAR", names |-> names, values |-> values, line |-> line]
\* type name type
TypeDecl(name, type, line) ==
    [kind |-> "GenDecl", tok |-> "TYPE", name |-> name, type |-> type, line |-> line]
\* lhs := rhs, lhs = rhs
AssignStmt(lhs, rhs, line) ==
    [kind |-> "AssignStmt", lhs |-> lhs, rhs |-> rhs, line |-> line]
\* for key, value := range x
RangeStmt(key, value, x, line) ==
    [kind |-> "RangeStmt", key |-> key, value |-> value, x |-> x, line |-> line]
\* fun(args...)
CallExpr(fun, args, line) ==
    [kind |-> "CallExpr", fun |-> fun, args |-> args, line |-> line]

(***************************************************************************)
(* Strings and their source tokens.                                        *)
(***************************************************************************)
DQ == "dq"
BQ == "bq"
BS == "bs"
TAB == "TAB"

\* strconv.Quote's rendering of one rune
EscapeRune(r) ==
    IF r = TAB THEN <<BS, "t">>
    ELSE IF r = DQ THEN <<BS, DQ>>
    ELSE IF r = BS THEN <<BS, BS>>
    ELSE <<r>>

RECURSIVE Escape(_)
Escape(s) == IF s = <<>> THEN <<>> ELSE EscapeRune(Head(s)) \o Escape(Tail(s))

\* strconv.Quote(s): the double-quoted Go literal of s
Quote(s) == <<DQ>> \o Escape(s) \o <<DQ>>

\* other spellings of a string in the source: the raw literal `s`, and
\* "a\x09" for the string  a TAB
RawToken(s) == <<BQ>> \o s \o <<BQ>>
HexToken == <<DQ, "a", BS, "x", "0", "9", DQ>>

isStringLiteral(n, s) ==
    /\ n.kind = "BasicLit"
    /\ n.tok = "STRING"
    /\ n.value = Quote(s)

(***************************************************************************)
(* The lookup maps; a Go map read of an absent key gives nil.              *)
(***************************************************************************)
EmptyMap == [o \in {} |-> NilExpr]
Put(m, k, v) == [o \in DOMAIN m \cup {k} |-> IF o = k THEN v ELSE m[o]]
Get(m, k) == IF k \in DOMAIN m THEN m[k] ELSE NilExpr

isSelector(n) == n.kind = "SelectorExpr" /\ n.x.kind = "Ident"

isMethodCall(n, obj, fun) ==
    /\ n.kind = "CallExpr"
    /\ isSelector(n.fun)
    /\ n.fun.x.name = obj
    /\ n.fun.sel = fun

NotFound == 0 - 1

\* the index i (from 0) of the first ast.Field one of whose names is name
findStructFieldIndex(t, name) ==
    IF t.kind # "StructType" THEN NotFound
    ELSE LET hits == {i \in 1..Len(t.fields) :
                        \E j \in 1..Len(t.fields[i]) : t.fields[i][j] = name}
         IN IF hits = {} THEN NotFound
            ELSE (CHOOSE i \in hits : \A h \in hits : i <= h) - 1

\* the element type findTestCaseItem works with; NilExpr where it returns nil
testcaseTypeOf(testcases, objToTypeDecl) ==
    IF testcases.type.kind = "ArrayType"
    THEN IF testcases.type.elt.kind = "Ident"
         THEN Get(objToTypeDecl, testcases.type.elt.obj)
         ELSE testcases.type.elt
    ELSE IF testcases.type.kind = "MapType" THEN testcases.type
    ELSE NilExpr

\* the i-th element (from 0) of a struct literal names key with the value sought
fieldMatches(field, i, testcaseType, key, value) ==
    IF field.kind = "KeyValueExpr"
    THEN /\ field.key.kind = "Ident"
         /\ field.key.name = key
         /\ isStringLiteral(field.value, value)
    ELSE /\ field.kind = "BasicLit"
         /\ findStructFieldIndex(testcaseType, key) = i
         /\ isStringLiteral(field, value)

\* one turn of the loop over testcases.Elts returns the element
testcaseMatches(testcase, testcaseType, key, value) ==
    \/ /\ testcase.kind = "KeyValueExpr"
       /\ testcase.key.kind = "BasicLit"
       /\ isStringLiteral(testcase.key, value)
    \/ /\ testcase.kind = "CompositeLit"
       /\ \E i \in 1..Len(testcase.elts) :
              fieldMatches(testcase.elts[i], i - 1, testcaseType, key, value)

\* the first element of the table that matches, NilExpr when there is none
findTestCaseItem(init, key, value, objToTypeDecl) ==
    IF init.kind # "CompositeLit" THEN NilExpr
    ELSE LET testcaseType == testcaseTypeOf(init, objToTypeDecl)
             hits == {e \in 1..Len(init.elts) :
                        testcaseMatches(init.elts[e], testcaseType, key, value)}
         IN IF testcaseType.kind = "nil" \/ hits = {} THEN NilExpr
            ELSE init.elts[CHOOSE e \in hits : \A h \in hits : e <= h]

(***************************************************************************)
(* The first traversal: the four lookup maps.                              *)
(***************************************************************************)
EmptyIndex ==
    [objToTypeDecl |-> EmptyMap, objToVarInit |-> EmptyMap,
     objToRangeExprForValue |-> EmptyMap, objToRangeExprForKey |-> EmptyMap]

\* for i, name := range valueSpec.Names, from the i-th name (from 1) on
RECURSIVE indexValueSpec(_, _, _)
indexValueSpec(m, n, i) ==
    IF i > Len(n.names) THEN m
    ELSE indexValueSpec(
            IF i - 1 < Len(n.values) - 1
            THEN Put(m, n.names[i].obj, n.values[i]) ELSE m,
            n, i + 1)

\* for i, expr := range assignStmt.Lhs, from the i-th expression (from 1) on
RECURSIVE indexAssignStmt(_, _, _)
indexAssignStmt(m, n, i) ==
    IF i > Len(n.lhs) THEN m
    ELSE indexAssignStmt(
            IF n.lhs[i].kind # "Ident" THEN m
            ELSE IF Len(n.lhs) = Len(n.rhs) THEN Put(m, n.lhs[i].obj, n.rhs[i])
            ELSE IF Len(n.rhs) = 1 THEN Put(m, n.lhs[i].obj, n.rhs[1])
            ELSE m,
            n, i + 1)

indexRangeStmt(idx, n) ==
    [idx EXCEPT
       !.objToRangeExprForValue =
           IF n.value.kind = "Ident" THEN Put(@, n.value.obj, n.x) ELSE @,
       !.objToRangeExprForKey =
           IF n.key.kind = "Ident" THEN Put(@, n.key.obj, n.x) ELSE @]

\* the first ast.Inspect callback on one node
indexNode(idx, n) ==
    IF n.kind = "RangeStmt" THEN indexRangeStmt(idx, n)
    ELSE IF n.kind = "GenDecl" /\ n.tok = "VAR"
    THEN [idx EXCEPT !.objToVarInit = indexValueSpec(@, n, 1)]
    ELSE IF n.kind = "GenDecl" /\ n.tok = "TYPE"
    THEN [idx EXCEPT !.objToTypeDecl = Put(@, n.name.obj, n.type)]
    ELSE IF n.kind = "AssignStmt"
    THEN [idx EXCEPT !.objToVarInit = indexAssignStmt(@, n, 1)]
    ELSE idx

RECURSIVE indexNodes(_, _)
indexNodes(idx, nodes) ==
    IF nodes = <<>> THEN idx
    ELSE indexNodes(indexNode(idx, Head(nodes)), Tail(nodes))

(***************************************************************************)
(* The second traversal: the call at the caller's line.                    *)
(***************************************************************************)
Sentinel == <<"(unknown)">>
EmptyString == <<>>
Sprintf(filename, line) == <<filename, ":", line>>

\* the table element a dataloc.L call's argument leads to, NilExpr for none
siteItem(call, value, idx) ==
    LET arg == call.args[1] IN
    IF isSelector(arg)
    THEN IF /\ arg.x.obj \in DOMAIN idx.objToRangeExprForValue
            /\ idx.objToRangeExprForValue[arg.x.obj].kind = "Ident"
         THEN findTestCaseItem(
                 Get(idx.objToVarInit, idx.objToRangeExprForValue[arg.x.obj].obj),
                 arg.sel, value, idx.objToTypeDecl)
         ELSE NilExpr
    ELSE IF arg.kind = "Ident"
    THEN IF /\ arg.obj \in DOMAIN idx.objToRangeExprForKey
            /\ idx.objToRangeExprForKey[arg.obj].kind = "Ident"
         THEN findTestCaseItem(
                 Get(idx.objToVarInit, idx.objToRangeExprForKey[arg.obj].obj),
                 arg.name, value, idx.objToTypeDecl)
         ELSE NilExpr
    ELSE NilExpr

\* the second ast.Inspect callback on one node: the local loc and whether
\* call.Args[0] panicked
matchNode(st, n, path, line, value, idx) ==
    IF st.panic \/ n.line # line \/ ~isMethodCall(n, "dataloc", "L") THEN st
    ELSE IF n.args = <<>> THEN [st EXCEPT !.panic = TRUE]
    ELSE LET node == siteItem(n, value, idx)
         IN IF node.kind # "nil"
            THEN [st EXCEPT !.loc = Sprintf(path, node.line)]
            ELSE st

RECURSIVE matchNodes(_, _, _, _, _, _)
matchNodes(st, nodes, path, line, value, idx) ==
    IF nodes = <<>> THEN st
    ELSE matchNodes(matchNode(st, Head(nodes), path, line, value, idx),
                    Tail(nodes), path, line, value, idx)

(***************************************************************************)
(* The source files and call stacks the model draws from.                  *)
(***************************************************************************)
TestFile == "t_test.go"
HelperFile == "helper.go"

\* the sought values: a, b, and a followed by a tab
Values == {<<"a">>, <<"b">>, <<"a", TAB>>}

\* every sequence over S of at most n elements
RECURSIVE SeqsUpTo(_, _)
SeqsUpTo(S, n) ==
    IF n = 0 THEN {<<>>}
    ELSE LET shorter == SeqsUpTo(S, n - 1)
         IN shorter \cup {Append(q, x) : q \in {r \in shorter : Len(r) = n - 1}, x \in S}

TypeLine == FirstLine
PreLine == FirstLine + 1
DeclLine == FirstLine + 2
EntryLine(e) == DeclLine + e
RangeLine == DeclLine + MaxEntries + 1
CallLine == RangeLine + 1

StrLit(token) == BasicLit("STRING", token)
IntLit(d) == BasicLit("INT", <<d>>)

\* the identifiers of a test function, as the parser resolves them
tests == Ident("tests", "tests#1")
testsElsewhere == Ident("tests", NilObj)
tc == Ident("tc", "tc#1")
k == Ident("k", "k#1")
blank == Ident("_", "_#1")
blankAssigned == Ident("_", NilObj)
unresolved == Ident("u", NilObj)
T == Ident("T", "T#1")
TElsewhere == Ident("T", NilObj)
predeclaredString == Ident("string", NilObj)
SpareNames == <<"x1", "x2", "x3", "x4">>
SpareObjs == <<"x1#1", "x2#1", "x3#1", "x4#1">>
Digits == <<"1", "2", "3", "4">>
spare(i) == Ident(SpareNames[i], SpareObjs[i])
spareElsewhere(i) == Ident(SpareNames[i], NilObj)

nameWant == StructType(<<<<"name">>, <<"want">>>>)

\* for _, tc := range tests { ... dataloc.L(tc.name) ... }
valueLoop == <<RangeStmt(blank, tc, tests, RangeLine),
               CallExpr(SelectorExpr(Ident("dataloc", NilObj), "L"),
                        <<SelectorExpr(tc, "name")>>, CallLine)>>
\* for k, tc := range tests { ... dataloc.L(k) ... }
keyLoop == <<RangeStmt(k, tc, tests, RangeLine),
             CallExpr(SelectorExpr(Ident("dataloc", NilObj), "L"), <<k>>, CallLine)>>

SourceFile(nodes) == [parseErr |-> FALSE, nodes |-> nodes]
Unparsable == [parseErr |-> TRUE, nodes |-> <<>>]

\* the declarations of a table: tests := lit, var tests = lit,
\* var tests []T followed by tests = lit
DeclForms == {"define", "var", "assign"}
declare(form, lit) ==
    IF form = "define" THEN <<AssignStmt(<<tests>>, <<lit>>, DeclLine)>>
    ELSE IF form = "var" THEN <<VarDecl(<<tests>>, <<lit>>, DeclLine)>>
    ELSE <<VarDecl(<<tests>>, <<>>, PreLine), AssignStmt(<<tests>>, <<lit>>, DeclLine)>>

\* sequence tables with keyed fields
KeyedKinds == {"a", "b", "raw", "tab", "hex", "want", "ptr", "index"}
keyedLit(token, line) ==
    CompositeLit(NilExpr, <<KeyValueExpr(Ident("name", NilObj), StrLit(token), line),
                            KeyValueExpr(Ident("want", NilObj), IntLit("1"), line)>>, line)
keyedEntry(kind, line) ==
    IF kind = "a" THEN keyedLit(Quote(<<"a">>), line)
    ELSE IF kind = "b" THEN keyedLit(Quote(<<"b">>), line)
    ELSE IF kind = "raw" THEN keyedLit(RawToken(<<"a">>), line)
    ELSE IF kind = "tab" THEN keyedLit(Quote(<<"a", TAB>>), line)
    ELSE IF kind = "hex" THEN keyedLit(HexToken, line)
    ELSE IF kind = "want"
    THEN CompositeLit(NilExpr,
            <<KeyValueExpr(Ident("want", NilObj), StrLit(Quote(<<"a">>)), line)>>, line)
    ELSE IF kind = "ptr" THEN [kind |-> "Other", line |-> line, end |-> line]
    ELSE KeyValueExpr(IntLit("0"), keyedLit(Quote(<<"a">>), line), line)

\* the element types: an inline struct, a named struct of this file, a named
\* type of another file, a named non-struct type, a pointer type
EltForms == {"inline", "named", "elsewhere", "string", "pointer"}
eltType(form, struct) ==
    IF form = "inline" THEN struct
    ELSE IF form = "named" THEN T
    ELSE IF form = "elsewhere" THEN TElsewhere
    ELSE IF form = "string" THEN predeclaredString
    ELSE Other
typeDecls(form, struct) ==
    IF form = "named" THEN <<TypeDecl(T, struct, TypeLine)>> ELSE <<>>

entriesOf(kinds, mk(_, _)) == [e \in 1..Len(kinds) |-> mk(kinds[e], EntryLine(e))]

KeyedFiles ==
    {SourceFile(typeDecls(elt, nameWant)
                \o declare(form, CompositeLit(ArrayType(eltType(elt, nameWant)),
                                              entriesOf(kinds, keyedEntry), DeclLine))
                \o valueLoop) :
        elt \in EltForms, form \in DeclForms, kinds \in SeqsUpTo(KeyedKinds, MaxEntries)}

\* sequence tables with positional fields: the struct's field lists, and
\* literals holding one string among integers
FieldLists ==
    {<<<<"name">>, <<"want">>>>, <<<<"want">>, <<"name">>>>,
     <<<<"want", "name">>>>, <<<<"a", "b">>, <<"name">>>>,
     <<<<"a", "name">>, <<"want">>>>, <<<<"want">>>>}
RECURSIVE fieldCount(_)
fieldCount(fields) ==
    IF fields = <<>> THEN 0 ELSE Len(Head(fields)) + fieldCount(Tail(fields))
positionalEntry(n, at, line) ==
    CompositeLit(NilExpr,
        [i \in 1..n |-> IF i = at[1] THEN StrLit(Quote(at[2])) ELSE IntLit("1")], line)

PositionalFiles ==
    UNION {
      {SourceFile(typeDecls(elt, StructType(fields))
                  \o declare("define",
                       CompositeLit(ArrayType(eltType(elt, StructType(fields))),
                          [e \in 1..Len(ats) |->
                              positionalEntry(fieldCount(fields), ats[e], EntryLine(e))],
                          DeclLine))
                  \o valueLoop) :
          elt \in {"inline", "named"},
          ats \in SeqsUpTo((1..fieldCount(fields)) \X {<<"a">>, <<"b">>}, MaxEntries)}
      : fields \in FieldLists}

\* mapping tables: "a": {name: "b"}, `a`: {...}, ...
MapKinds == {"a", "b", "raw", "tab", "hex", "int", "a:a"}
mapEntry(kind, line) ==
    IF kind = "a" THEN KeyValueExpr(StrLit(Quote(<<"a">>)), keyedLit(Quote(<<"b">>), line), line)
    ELSE IF kind = "b" THEN KeyValueExpr(StrLit(Quote(<<"b">>)), keyedLit(Quote(<<"a">>), line), line)
    ELSE IF kind = "raw" THEN KeyValueExpr(StrLit(RawToken(<<"a">>)), keyedLit(Quote(<<"b">>), line), line)
    ELSE IF kind = "tab" THEN KeyValueExpr(StrLit(Quote(<<"a", TAB>>)), keyedLit(Quote(<<"b">>), line), line)
    ELSE IF kind = "hex" THEN KeyValueExpr(StrLit(HexToken), keyedLit(Quote(<<"b">>), line), line)
    ELSE IF kind = "int" THEN KeyValueExpr(IntLit("1"), keyedLit(Quote(<<"a">>), line), line)
    ELSE KeyValueExpr(StrLit(Quote(<<"a">>)), keyedLit(Quote(<<"a">>), line), line)

MapFiles ==
    {SourceFile(declare(form, CompositeLit(MapType, entriesOf(kinds, mapEntry), DeclLine))
                \o loop) :
        form \in DeclForms, kinds \in SeqsUpTo(MapKinds, MaxEntries),
        loop \in {keyLoop, valueLoop}}

\* the range clauses and the calls of a test over  tests := []struct{...}{a, b}
abTable ==
    CompositeLit(ArrayType(nameWant), entriesOf(<<"a", "b">>, keyedEntry), DeclLine)
abMap == CompositeLit(MapType, entriesOf(<<"a", "b">>, mapEntry), DeclLine)

RangeStmts ==
    {RangeStmt(blank, tc, tests, RangeLine),
     RangeStmt(k, tc, tests, RangeLine),
     RangeStmt(k, NilExpr, tests, RangeLine),
     \* for _, u = range tests, u a variable of another file
     RangeStmt(blankAssigned, unresolved, tests, RangeLine),
     \* for i, tc := range tests[1:], for _, tc := range []struct{...}{...}
     RangeStmt(blank, tc, Other, RangeLine),
     RangeStmt(blank, tc, abTable, RangeLine)}
Callees ==
    {SelectorExpr(Ident("dataloc", NilObj), "L"),
     SelectorExpr(Ident("dataloc", NilObj), "L3"),
     SelectorExpr(Ident("dl", NilObj), "L"),
     SelectorExpr(Other, "L"),
     Ident("L", NilObj)}
Arguments ==
    {<<>>, <<SelectorExpr(tc, "name")>>, <<k>>, <<SelectorExpr(k, "name")>>, <<tc>>,
     <<SelectorExpr(unresolved, "name")>>, <<unresolved>>,
     <<SelectorExpr(tc, "name"), k>>, <<Other>>, <<StrLit(Quote(<<"a">>))>>}

CallFiles ==
    {SourceFile(declare("define", table) \o <<range, CallExpr(fun, args, CallLine)>>) :
        table \in {abTable, abMap}, range \in RangeStmts, fun \in Callees,
        args \in Arguments}

\* two calls on the caller's line
TwoCallFiles ==
    {SourceFile(declare("define", abTable)
                \o <<RangeStmt(k, tc, tests, RangeLine),
                     CallExpr(SelectorExpr(Ident("dataloc", NilObj), "L"), a1, CallLine),
                     CallExpr(SelectorExpr(Ident("dataloc", NilObj), "L"), a2, CallLine)>>) :
        a1 \in Arguments, a2 \in Arguments}

\* declarations and assignments of several names: the table is the p-th name
\* and the q-th initializer (there is none for q = 0), the other initializers
\* are the integers 1, 2, ...
declNames(n, p, table, others(_)) == [i \in 1..n |-> IF i = p THEN table ELSE others(i)]
declValues(m, q) == [i \in 1..m |-> IF i = q THEN abTable ELSE IntLit(Digits[i])]

DeclShapes ==
    UNION {{<<n, p, m, q>> : p \in 1..n, q \in 0..m} : n \in 1..MaxNames, m \in 0..MaxNames}
DeclFiles ==
    {SourceFile(<<VarDecl(declNames(d[1], d[2], tests, spare),
                          declValues(d[3], d[4]), DeclLine)>> \o valueLoop) :
        d \in DeclShapes}
    \cup
    {SourceFile(<<AssignStmt(declNames(d[1], d[2], tests, spare),
                             declValues(d[3], d[4]), DeclLine)>> \o valueLoop) :
        d \in {x \in DeclShapes : x[3] > 0}}
    \cup
    \* x, tests = 1, lit  with x and tests variables of another file
    {SourceFile(<<AssignStmt(declNames(d[1], d[2], testsElsewhere, spareElsewhere),
                             declValues(d[3], d[4]), DeclLine),
                  RangeStmt(blank, tc, testsElsewhere, RangeLine), valueLoop[2]>>) :
        d \in {x \in DeclShapes : x[3] > 0}}

Files ==
    KeyedFiles \cup PositionalFiles \cup MapFiles \cup CallFiles \cup TwoCallFiles
    \cup DeclFiles \cup {Unparsable}

\* the frames above the entry point: helpers, then the test function at a
\* line of the file; HelperFile is not on disk, and no frame lies beyond the
\* test function
Frame(file, line) == [file |-> file, line |-> line]
NoFrame == Frame("", 0)
Lines == {RangeLine, CallLine}
Stacks ==
    {[i \in 1..(h + 1) |-> IF i <= h THEN Frame(HelperFile, FirstLine) ELSE Frame(TestFile, l)] :
        h \in 0..MaxHelpers, l \in Lines}

(***************************************************************************)
(* The program: goroutines calling L, L3, L4, L5 and L6, each one call     *)
(* after the other.                                                        *)
(***************************************************************************)
VARIABLES
    file,      \* the syntax tree of TestFile on disk
    cwdOK,     \* whether os.Getwd succeeds
    pc,        \* where each goroutine is in loc
    value,     \* loc's argument value
    path,      \* loc's local file
    line,      \* loc's local line
    idx,       \* loc's four maps
    ret,       \* the string the caller got last
    left       \* how many more calls the test binary makes

vars == <<file, cwdOK, pc, value, path, line, idx, ret, left>>

Goroutines == {"g1", "g2"}

\* the step each entry point passes to loc
EntryPoints == [L |-> 2, L3 |-> 3, L4 |-> 4, L5 |-> 5, L6 |-> 6]

\* runtime.Caller(step) seen from loc: frame 1 is the entry point's own
Caller(stack, step) ==
    IF step - 1 \in 1..Len(stack) THEN stack[step - 1] ELSE NoFrame

\* filepath.Rel(cwd, file) fails on the empty path of a missing frame
RelFails(f) == f = ""

\* a panic in one goroutine ends the process
Running(g) ==
    /\ pc[g] \notin {"off"}
    /\ \A h \in Goroutines : pc[h] # "panic"

\* L(name) ... loc: runtime.Caller, os.Getwd, filepath.Rel
Start(g, entry, stack, v) ==
    LET frame == Caller(stack, EntryPoints[entry]) IN
    /\ Running(g)
    /\ pc[g] \in {"idle", "done"}
    /\ left > 0
    /\ left' = left - 1
    /\ value' = [value EXCEPT ![g] = v]
    /\ path' = [path EXCEPT ![g] = frame.file]
    /\ line' = [line EXCEPT ![g] = frame.line]
    /\ idx' = [idx EXCEPT ![g] = EmptyIndex]
    /\ \/ /\ ~cwdOK
          /\ pc' = [pc EXCEPT ![g] = "done"]
          /\ ret' = [ret EXCEPT ![g] = EmptyString]
       \/ /\ cwdOK
          /\ RelFails(frame.file)
          /\ pc' = [pc EXCEPT ![g] = "done"]
          /\ ret' = [ret EXCEPT ![g] = EmptyString]
       \/ /\ cwdOK
          /\ ~RelFails(frame.file)
          /\ pc' = [pc EXCEPT ![g] = "located"]
          /\ ret' = ret
    /\ UNCHANGED <<file, cwdOK>>

\* parser.ParseFile: only TestFile is on disk
ParseFile(g) ==
    /\ Running(g)
    /\ pc[g] = "located"
    /\ \/ /\ (path[g] # TestFile \/ file.parseErr)
          /\ pc' = [pc EXCEPT ![g] = "done"]
          /\ ret' = [ret EXCEPT ![g] = EmptyString]
       \/ /\ path[g] = TestFile
          /\ ~file.parseErr
          /\ pc' = [pc EXCEPT ![g] = "parsed"]
          /\ ret' = ret
    /\ UNCHANGED <<file, cwdOK, value, path, line, idx, left>>

\* the first ast.Inspect
BuildIndex(g) ==
    /\ Running(g)
    /\ pc[g] = "parsed"
    /\ idx' = [idx EXCEPT ![g] = indexNodes(EmptyIndex, file.nodes)]
    /\ pc' = [pc EXCEPT ![g] = "indexed"]
    /\ UNCHANGED <<file, cwdOK, value, path, line, ret, left>>

\* FindSite without  loc := "(unknown)": loc a variable that outlives the
\* call and keeps the location the goroutine found before
FindSiteStaleLoc(g) ==
    LET st == matchNodes([loc |-> IF Len(ret[g]) = 3 THEN ret[g] ELSE Sentinel,
                          panic |-> FALSE],
                         file.nodes, path[g], line[g], value[g], idx[g]) IN
    /\ Running(g)
    /\ pc[g] = "indexed"
    /\ \/ /\ st.panic
          /\ pc' = [pc EXCEPT ![g] = "panic"]
          /\ ret' = ret
       \/ /\ ~st.panic
          /\ pc' = [pc EXCEPT ![g] = "done"]
          /\ ret' = [ret EXCEPT ![g] = st.loc]
    /\ idx' = [idx EXCEPT ![g] = EmptyIndex]
    /\ UNCHANGED <<file, cwdOK, value, path, line, left>>

\* the second ast.Inspect and the return to L's caller
FindSite(g) ==
    LET st == matchNodes([loc |-> Sentinel, panic |-> FALSE], file.nodes,
                         path[g], line[g], value[g], idx[g]) IN
    /\ Running(g)
    /\ pc[g] = "indexed"
    /\ \/ /\ st.panic
          /\ pc' = [pc EXCEPT ![g] = "panic"]
          /\ ret' = ret
       \/ /\ ~st.panic
          /\ pc' = [pc EXCEPT ![g] = "done"]
          /\ ret' = [ret EXCEPT ![g] = st.loc]
    /\ idx' = [idx EXCEPT ![g] = EmptyIndex]
    /\ UNCHANGED <<file, cwdOK, value, path, line, left>>

Next ==
    \E g \in Goroutines :
        \/ \E entry \in DOMAIN EntryPoints, stack \in Stacks, v \in Values :
              Start(g, entry, stack, v)
        \/ ParseFile(g)
        \/ BuildIndex(g)
        \/ FindSite(g)

InitLocals ==
    /\ value = [g \in Goroutines |-> <<>>]
    /\ path = [g \in Goroutines |-> ""]
    /\ line = [g \in Goroutines |-> 0]
    /\ idx = [g \in Goroutines |-> EmptyIndex]
    /\ ret = [g \in Goroutines |-> EmptyString]

\* one goroutine making one call, any source file
Init ==
    /\ file \in Files
    /\ cwdOK \in BOOLEAN
    /\ pc = [g \in Goroutines |-> IF g = "g1" THEN "idle" ELSE "off"]
    /\ left = 1
    /\ InitLocals

Spec == Init /\ [][Next]_vars

\* two goroutines making MaxCalls calls between them, at once or one after
\* the other, over the tables of a and b (a sequence declared by := or by
\* var with its value loop, a mapping with its key loop), a file whose call
\* has no argument, or a file that does not parse
IdemFiles ==
    {SourceFile(declare("define", abTable) \o valueLoop),
     SourceFile(declare("var", abTable) \o valueLoop),
     SourceFile(declare("define", abMap) \o keyLoop),
     SourceFile(declare("define", abTable)
                \o <<valueLoop[1],
                     CallExpr(SelectorExpr(Ident("dataloc", NilObj), "L"), <<>>, CallLine)>>),
     Unparsable}

InitIdem ==
    /\ file \in IdemFiles
    /\ cwdOK \in BOOLEAN
    /\ pc = [g \in Goroutines |-> "idle"]
    /\ left = MaxCalls
    /\ InitLocals

SpecIdem == InitIdem /\ [][Next]_vars

(***************************************************************************)
(* Vocabulary of the properties.                                           *)
(***************************************************************************)
Nodes(f) == {f.nodes[i] : i \in 1..Len(f.nodes)}

\* a string of the form path:line
IsPathLine(s) == Len(s) = 3 /\ s[2] = ":" /\ s[3] >= 1

\* the call returned, and its frame was CallLine of the test file
ReturnedAtCallLine(c) ==
    /\ pc[c] = "done"
    /\ cwdOK
    /\ path[c] = TestFile
    /\ line[c] = CallLine

\* two occurrences of one variable
SameVar(a, b) ==
    /\ a.kind = "Ident"
    /\ b.kind = "Ident"
    /\ a.name = b.name
    /\ a.obj = b.obj

\* the declarations  tests := e,  tests = e  and  var tests = e  of a file
IsSoleDecl(n) ==
    \/ n.kind = "AssignStmt" /\ n.lhs = <<tests>> /\ Len(n.rhs) = 1
    \/ n.kind = "GenDecl" /\ n.tok = "VAR" /\ n.names = <<tests>> /\ Len(n.values) = 1
SoleDecls(f) == {n \in Nodes(f) : IsSoleDecl(n)}
InitOf(n) == IF n.kind = "AssignStmt" THEN n.rhs[1] ELSE n.values[1]

\* the file declares tests once, as a literal
HasTable(f) ==
    /\ ~f.parseErr
    /\ Cardinality(SoleDecls(f)) = 1
    /\ \A n \in SoleDecls(f) : InitOf(n).kind = "CompositeLit"
TableOf(f) == InitOf(CHOOSE n \in SoleDecls(f) : TRUE)
DeclaredByVar(f) == \E n \in SoleDecls(f) : n.kind = "GenDecl"

CallsOf(f) == {n \in Nodes(f) : n.kind = "CallExpr"}
\* the file's only call is dataloc.L(tc.name) in  for _, tc := range tests
HasValueLoop(f) ==
    /\ valueLoop[1] \in Nodes(f)
    /\ CallsOf(f) = {valueLoop[2]}
\* the file's only call is dataloc.L(k) in  for k, tc := range tests
HasKeyLoop(f) ==
    /\ keyLoop[1] \in Nodes(f)
    /\ CallsOf(f) = {keyLoop[2]}

\* a struct literal all of whose fields are written  name: value
IsKeyedLit(e) ==
    /\ e.kind = "CompositeLit"
    /\ \A i \in 1..Len(e.elts) :
          e.elts[i].kind = "KeyValueExpr" /\ e.elts[i].key.kind = "Ident"
\* a struct literal all of whose fields are bare literals
IsPositionalLit(e) ==
    /\ e.kind = "CompositeLit"
    /\ \A i \in 1..Len(e.elts) : e.elts[i].kind = "BasicLit"

\* the struct type of the elements of a sequence table: written inline, or
\* named and declared in the file; NilExpr otherwise
StructOf(f, t) ==
    IF t.type.kind # "ArrayType" THEN NilExpr
    ELSE IF t.type.elt.kind = "StructType" THEN t.type.elt
    ELSE IF /\ t.type.elt.kind = "Ident"
            /\ \E n \in Nodes(f) : /\ n.kind = "GenDecl" /\ n.tok = "TYPE"
                                   /\ n.name = t.type.elt /\ n.type.kind = "StructType"
    THEN (CHOOSE n \in Nodes(f) : /\ n.kind = "GenDecl" /\ n.tok = "TYPE"
                                  /\ n.name = t.type.elt).type
    ELSE NilExpr

\* a sequence-of-structures table with keyed fields
IsKeyedTable(f) ==
    /\ HasTable(f)
    /\ StructOf(f, TableOf(f)).kind = "StructType"
    /\ \A e \in 1..Len(TableOf(f).elts) : IsKeyedLit(TableOf(f).elts[e])
\* a mapping table
IsMapTable(f) ==
    /\ HasTable(f)
    /\ TableOf(f).type.kind = "MapType"
    /\ \A e \in 1..Len(TableOf(f).elts) : TableOf(f).elts[e].kind = "KeyValueExpr"
\* a sequence-of-structures table with positional fields, one for each name
IsPositionalTable(f) ==
    /\ HasTable(f)
    /\ StructOf(f, TableOf(f)).kind = "StructType"
    /\ \A e \in 1..Len(TableOf(f).elts) :
          /\ IsPositionalLit(TableOf(f).elts[e])
          /\ Len(TableOf(f).elts[e].elts) = fieldCount(StructOf(f, TableOf(f)).fields)

\* the entries of a keyed table whose field fname is the literal of v as
\* strconv.Quote writes it, and those of a mapping table whose key is
KeyedHits(t, fname, v) ==
    {e \in 1..Len(t.elts) :
        \E i \in 1..Len(t.elts[e].elts) :
            /\ t.elts[e].elts[i].key.name = fname
            /\ t.elts[e].elts[i].value = StrLit(Quote(v))}
MapHits(t, v) == {e \in 1..Len(t.elts) : t.elts[e].key = StrLit(Quote(v))}

Least(S) == CHOOSE x \in S : \A y \in S : x <= y
\* the line of the first of the entries hits, the sentinel when there is none
FirstOf(t, hits) ==
    IF hits = {} THEN Sentinel ELSE Sprintf(TestFile, t.elts[Least(hits)].line)

(***************************************************************************)
(* C1.  Every entry point returns either a string of the form path:line or *)
(* exactly the string "unknown", and every failure path (no working        *)
(* directory, no relative path, unreadable or unparsable file, no          *)
(* dataloc.L call at the line, unresolved binding or type, no matching     *)
(* entry) returns that same string "unknown".                              *)
(***************************************************************************)
C1_PathLineOrUnknown ==
    \A c \in Goroutines : pc[c] = "done" => (IsPathLine(ret[c]) \/ ret[c] = <<"unknown">>)

\* The same with the sentinel the code spells "(unknown)": the failures
\* before the traversals still return the empty string.
C1_PathLineOrSentinel ==
    \A c \in Goroutines : pc[c] = "done" => (IsPathLine(ret[c]) \/ ret[c] = Sentinel)

(***************************************************************************)
(* C2.  A call of an entry point never panics, whatever the syntax tree    *)
(* holds at the caller's line: it returns a string.                        *)
(***************************************************************************)
C2_NeverPanics == \A c \in Goroutines : pc[c] # "panic"

\* What holds: only a dataloc.L() without arguments at the line panics.
C2_PanicsOnlyWithoutArguments ==
    \A c \in Goroutines :
        pc[c] = "panic" =>
            \E n \in CallsOf(file) :
                n.line = line[c] /\ isMethodCall(n, "dataloc", "L") /\ n.args = <<>>

(***************************************************************************)
(* C3.  Round trip: for every entry of a literal table that is ranged over *)
(* by the loop holding the dataloc.L call, the table declared by :=, by    *)
(* assignment or by var, a call with that entry's key returns path:line    *)
(* with the line within the entry's literal.  Stated for keyed sequence    *)
(* tables and mapping tables, and for an entry whose key is written as     *)
(* strconv.Quote writes it and is the key of no other entry.               *)
(***************************************************************************)
C3_RoundTrip ==
    \A c \in Goroutines :
        LET t == TableOf(file)
            hits == IF IsKeyedTable(file) THEN KeyedHits(t, "name", value[c])
                    ELSE MapHits(t, value[c])
        IN (/\ ReturnedAtCallLine(c)
            /\ \/ IsKeyedTable(file) /\ HasValueLoop(file)
               \/ IsMapTable(file) /\ HasKeyLoop(file)
            /\ Cardinality(hits) = 1)
           => /\ IsPathLine(ret[c])
              /\ \A e \in hits : ret[c][3] \in t.elts[e].line..t.elts[e].end

\* What holds: the same for the tables not declared by var.
C3_RoundTripUnlessVar ==
    \A c \in Goroutines :
        LET t == TableOf(file)
            hits == IF IsKeyedTable(file) THEN KeyedHits(t, "name", value[c])
                    ELSE MapHits(t, value[c])
        IN (/\ ReturnedAtCallLine(c)
            /\ \/ IsKeyedTable(file) /\ HasValueLoop(file)
               \/ IsMapTable(file) /\ HasKeyLoop(file)
            /\ ~DeclaredByVar(file)
            /\ Cardinality(hits) = 1)
           => /\ IsPathLine(ret[c])
              /\ \A e \in hits : ret[c][3] \in t.elts[e].line..t.elts[e].end

(***************************************************************************)
(* C4.  For a sequence-of-structures table with keyed fields and the call  *)
(* dataloc.L(tc.name), tc the range value variable, the call returns the   *)
(* line of the first entry with a keyed field called name whose string     *)
(* literal is the value sought, never a later one, and the sentinel when   *)
(* no entry matches.                                                       *)
(***************************************************************************)
C4_FirstKeyedEntry ==
    \A c \in Goroutines :
        (/\ ReturnedAtCallLine(c)
         /\ IsKeyedTable(file)
         /\ HasValueLoop(file))
        => ret[c] = FirstOf(TableOf(file), KeyedHits(TableOf(file), "name", value[c]))

\* What holds: the same for the tables not declared by var.
C4_FirstKeyedEntryUnlessVar ==
    \A c \in Goroutines :
        (/\ ReturnedAtCallLine(c)
         /\ IsKeyedTable(file)
         /\ HasValueLoop(file)
         /\ ~DeclaredByVar(file))
        => ret[c] = FirstOf(TableOf(file), KeyedHits(TableOf(file), "name", value[c]))

(***************************************************************************)
(* C5.  For a mapping table ranged over as  for k, v := range table  and   *)
(* the call dataloc.L(k), the call returns the line of the entry whose     *)
(* literal key is the value sought and the sentinel when there is none;    *)
(* the fields inside the entries' values play no part.                     *)
(***************************************************************************)
C5_MapKey ==
    \A c \in Goroutines :
        (/\ ReturnedAtCallLine(c)
         /\ IsMapTable(file)
         /\ HasKeyLoop(file))
        => ret[c] = FirstOf(TableOf(file), MapHits(TableOf(file), value[c]))

\* What holds: the same for the tables not declared by var.
C5_MapKeyUnlessVar ==
    \A c \in Goroutines :
        (/\ ReturnedAtCallLine(c)
         /\ IsMapTable(file)
         /\ HasKeyLoop(file)
         /\ ~DeclaredByVar(file))
        => ret[c] = FirstOf(TableOf(file), MapHits(TableOf(file), value[c]))

(***************************************************************************)
(* C6.  For a table of positional struct literals an entry matches exactly *)
(* when its bare literal at position p (from 0) is the literal of the      *)
(* value sought, p the position of the field called name counting every    *)
(* name of the field list (a, b int; name string  has name at 2).          *)
(***************************************************************************)
RECURSIVE Flatten(_)
Flatten(fields) ==
    IF fields = <<>> THEN <<>> ELSE Head(fields) \o Flatten(Tail(fields))

\* the position (from 0) of the first occurrence of name, NotFound for none
PositionOf(names, name) ==
    IF \E i \in 1..Len(names) : names[i] = name
    THEN Least({i \in 1..Len(names) : names[i] = name}) - 1
    ELSE NotFound

PositionalHits(t, p, v) ==
    {e \in 1..Len(t.elts) :
        p + 1 \in 1..Len(t.elts[e].elts) /\ t.elts[e].elts[p + 1] = StrLit(Quote(v))}

C6_PositionCountsEveryName ==
    \A c \in Goroutines :
        (/\ ReturnedAtCallLine(c)
         /\ IsPositionalTable(file)
         /\ HasValueLoop(file))
        => ret[c] = FirstOf(TableOf(file),
                        PositionalHits(TableOf(file),
                            PositionOf(Flatten(StructOf(file, TableOf(file)).fields), "name"),
                            value[c]))

\* What holds: the same for the field lists that give every name a field
\* of its own.
C6_PositionOfUngroupedNames ==
    \A c \in Goroutines :
        (/\ ReturnedAtCallLine(c)
         /\ IsPositionalTable(file)
         /\ HasValueLoop(file)
         /\ \A i \in 1..Len(StructOf(file, TableOf(file)).fields) :
               Len(StructOf(file, TableOf(file)).fields[i]) = 1)
        => ret[c] = FirstOf(TableOf(file),
                        PositionalHits(TableOf(file),
                            PositionOf(Flatten(StructOf(file, TableOf(file)).fields), "name"),
                            value[c]))

(***************************************************************************)
(* C8.  A location is returned only if a call at the caller's line is      *)
(* written dataloc.L(...) with a first argument that is ident.field, ident *)
(* a range value variable, or a bare identifier that is a range key        *)
(* variable, and the expression ranged over is an identifier bound to a    *)
(* literal collection; every other callee or argument gives the sentinel.  *)
(***************************************************************************)
\* a declaration or assignment of the file binds the variable x to a literal
BoundToLiteral(f, x) ==
    \E n \in Nodes(f) :
        \/ /\ n.kind = "AssignStmt"
           /\ \E i \in 1..Len(n.lhs) : SameVar(n.lhs[i], x)
           /\ \E j \in 1..Len(n.rhs) : n.rhs[j].kind = "CompositeLit"
        \/ /\ n.kind = "GenDecl" /\ n.tok = "VAR"
           /\ \E i \in 1..Len(n.names) : SameVar(n.names[i], x)
           /\ \E j \in 1..Len(n.values) : n.values[j].kind = "CompositeLit"

\* the call is written dataloc.L(arg, ...), arg the value variable (as
\* arg.field) or the key variable of a loop of the file over a bound table
IsTrackedCall(f, n) ==
    /\ n.fun.kind = "SelectorExpr"
    /\ n.fun.x.kind = "Ident" /\ n.fun.x.name = "dataloc"
    /\ n.fun.sel = "L"
    /\ n.args # <<>>
    /\ \E r \in Nodes(f) :
          /\ r.kind = "RangeStmt"
          /\ r.x.kind = "Ident"
          /\ BoundToLiteral(f, r.x)
          /\ \/ n.args[1].kind = "SelectorExpr" /\ SameVar(n.args[1].x, r.value)
             \/ SameVar(n.args[1], r.key)

C8_LocationOnlyForTrackedCall ==
    \A c \in Goroutines :
        (pc[c] = "done" /\ IsPathLine(ret[c]))
        => \E n \in CallsOf(file) : n.line = line[c] /\ IsTrackedCall(file, n)

\* What holds: the same in the files all of whose identifiers the parser
\* resolved to a declaration, the package name dataloc apart.
Idents(f) ==
    UNION {IF n.kind = "RangeStmt" THEN {n.key, n.value, n.x}
           ELSE IF n.kind = "AssignStmt" THEN {n.lhs[i] : i \in 1..Len(n.lhs)}
           ELSE IF n.kind = "CallExpr"
           THEN {n.args[i] : i \in 1..Len(n.args)}
                \cup {n.args[i].x : i \in {j \in 1..Len(n.args) : n.args[j].kind = "SelectorExpr"}}
           ELSE {} : n \in Nodes(f)}
AllResolved(f) == \A x \in Idents(f) : x.kind = "Ident" => x.obj # NilObj

C8_LocationOnlyForTrackedCallIfResolved ==
    \A c \in Goroutines :
        (pc[c] = "done" /\ IsPathLine(ret[c]) /\ AllResolved(file))
        => \E n \in CallsOf(file) : n.line = line[c] /\ IsTrackedCall(file, n)

(***************************************************************************)
(* C9.  After the first traversal, a var declaration of n names and m      *)
(* initializers has recorded: for n = m every name i with initializer i,   *)
(* the last name and the only name of  var tests = lit  included; for      *)
(* m = 1 < n every name with that one initializer; otherwise nothing.      *)
(***************************************************************************)
\* the var declarations none of whose names the file assigns to as well
Assigned(f, x) ==
    \E n \in Nodes(f) :
        n.kind = "AssignStmt" /\ \E i \in 1..Len(n.lhs) : SameVar(n.lhs[i], x)
VarDeclsOf(f) ==
    {n \in Nodes(f) : /\ n.kind = "GenDecl" /\ n.tok = "VAR"
                      /\ \A i \in 1..Len(n.names) : ~Assigned(f, n.names[i])}

C9_VarInitPairing ==
    \A c \in Goroutines :
        pc[c] = "indexed" =>
            \A n \in VarDeclsOf(file) : \A i \in 1..Len(n.names) :
                IF Len(n.names) = Len(n.values)
                THEN Get(idx[c].objToVarInit, n.names[i].obj) = n.values[i]
                ELSE IF Len(n.values) = 1
                THEN Get(idx[c].objToVarInit, n.names[i].obj) = n.values[1]
                ELSE n.names[i].obj \notin DOMAIN idx[c].objToVarInit

\* What holds: name i is recorded, with initializer i, exactly when i is
\* not the position of the last initializer or beyond it.
C9_VarInitAllButLast ==
    \A c \in Goroutines :
        pc[c] = "indexed" =>
            \A n \in VarDeclsOf(file) : \A i \in 1..Len(n.names) :
                IF i < Len(n.values)
                THEN Get(idx[c].objToVarInit, n.names[i].obj) = n.values[i]
                ELSE n.names[i].obj \notin DOMAIN idx[c].objToVarInit

(***************************************************************************)
(* C10.  The records of the four maps are keyed by the declaration of      *)
(* their identifier: identifiers of different declarations, or of none     *)
(* (the blank identifier of a range clause, a variable of another file),   *)
(* never read or overwrite each other's record.  Stated for VarInit: the   *)
(* initializer an assignment  x1, ..., xn = e1, ..., en  records for xi    *)
(* is still there after the traversal unless tests := e, tests = e or      *)
(* var tests = e follows.                                                  *)
(***************************************************************************)
C10_RecordsKeptApart ==
    \A c \in Goroutines :
        pc[c] = "indexed" =>
            \A a \in 1..Len(file.nodes) :
                LET n == file.nodes[a] IN
                (n.kind = "AssignStmt" /\ Len(n.lhs) = Len(n.rhs)) =>
                    \A i \in 1..Len(n.lhs) :
                        (/\ n.lhs[i].kind = "Ident"
                         /\ \A j \in (i + 1)..Len(n.lhs) : ~SameVar(n.lhs[j], n.lhs[i])
                         /\ \A b \in (a + 1)..Len(file.nodes) :
                               ~IsSoleDecl(file.nodes[b]))
                        => Get(idx[c].objToVarInit, n.lhs[i].obj) = n.rhs[i]

\* What holds: no record of a resolved identifier is read or overwritten
\* through another identifier; the unresolved ones share the key nil.
C10_ResolvedRecordsKeptApart ==
    \A c \in Goroutines :
        pc[c] = "indexed" =>
            \A a \in 1..Len(file.nodes) :
                LET n == file.nodes[a] IN
                (n.kind = "AssignStmt" /\ Len(n.lhs) = Len(n.rhs)) =>
                    \A i \in 1..Len(n.lhs) :
                        (/\ n.lhs[i].kind = "Ident"
                         /\ n.lhs[i].obj # NilObj
                         /\ \A j \in (i + 1)..Len(n.lhs) : ~SameVar(n.lhs[j], n.lhs[i])
                         /\ \A b \in (a + 1)..Len(file.nodes) :
                               ~IsSoleDecl(file.nodes[b]))
                        => Get(idx[c].objToVarInit, n.lhs[i].obj) = n.rhs[i]

(***************************************************************************)
(* C7.  Two calls with the same key at the same call site, the source file *)
(* and the working directory unchanged, return the same string, whether    *)
(* one follows the other or they run at once, and whatever calls were made *)
(* before: nothing one call builds is seen by another.                     *)
(***************************************************************************)
C7_SameInputSameResult ==
    \A c, d \in Goroutines :
        (/\ pc[c] = "done" /\ pc[d] = "done"
         /\ value[c] = value[d] /\ path[c] = path[d] /\ line[c] = line[d])
        => ret[c] = ret[d]

\* two calls have returned the same location for the same input
C7_Witness ==
    /\ pc["g1"] = "done" /\ pc["g2"] = "done"
    /\ value["g1"] = value["g2"] /\ path["g1"] = path["g2"] /\ line["g1"] = line["g2"]
    /\ IsPathLine(ret["g1"])
    /\ ret["g1"] = ret["g2"]

=============================================================================
